---- MODULE Spec2Model ----
(***************************************************************************)
(* A model of editeuren (src/main.rs): the terminal session of a screen    *)
(* editor.  main() enters raw mode, probes the window size, then loops     *)
(* { refresh; process_key } until Ctrl-Q, and finally restores the         *)
(* console.                                                                *)
(*                                                                         *)
(* The state is the program's own (the Screen and Editor fields, the       *)
(* position in main), the part of the operating system it talks to (the    *)
(* terminal attributes, the window size, the bytes waiting on standard     *)
(* input, the writes made on standard output) and a log of the calls made. *)
(* Strings are sequences of byte values.  Every system call is one step,   *)
(* with one action per outcome (success or error).                         *)
(***************************************************************************)
EXTENDS Integers, Sequences, FiniteSets, TLC

VARIABLES
  pc,               \* position in main: which call comes next
  term,             \* the terminal attributes held by the kernel
  ws,               \* the window size held by the kernel (struct winsize)
  stdin,            \* the bytes that will arrive on standard input, in order
  out,              \* the writes made on standard output, in order
  restore_termios,  \* <<>> until from_fd returned, then <<original_termios>>
  width,            \* Screen.width
  height,           \* Screen.height
  cursor,           \* Screen.cursor, <<row, column>>
  exit_code,        \* -1 while the process runs, then its exit status
  timeouts,         \* zero-byte reads of the current read_key call
  calls,            \* log: the calls made so far and how each ended
  term_before       \* the terminal attributes before main started

vars == <<pc, term, ws, stdin, out, restore_termios, width, height, cursor,
          exit_code, timeouts, calls, term_before>>

-----------------------------------------------------------------------------
(* Bounds of the exploration.                                              *)

MaxKeys == 3        \* longest input in the session scenarios
MaxTimeouts == 1    \* most zero-byte reads in a row
MaxCols == 33       \* widest window in the geometry scenarios
MaxRows == 7        \* tallest window in the geometry scenarios
MaxCc == 2          \* largest control-character value in the attribute scenarios

-----------------------------------------------------------------------------
(* Bytes and strings.                                                      *)

Byte == 0..255

Min(a, b) == IF a < b THEN a ELSE b

KeyW == 119   \* 'w'
KeyS == 115   \* 's'
KeyA == 97    \* 'a'
KeyD == 100   \* 'd'
KeyQ == 113   \* 'q'

\* A variant of ctrl_key that masks with 0x3f.
ctrl_key_six_bits(c) == c % 64

\* Keyboard::ctrl_key: (c as u8 & 0x1f) as char.  Masking with 0x1f keeps the
\* low five bits, which is the remainder modulo 32.
ctrl_key(c) == c % 32

\* The Display of a char (print!("{}", c)): its UTF-8 encoding.  read_key
\* yields buf[0] as char, a code point below 256.
char_utf8(c) == IF c < 128 THEN <<c>> ELSE <<192 + (c \div 64), 128 + (c % 64)>>

\* The Display of a non-negative integer: its decimal digits.
RECURSIVE fmt_nat(_)
fmt_nat(n) == IF n < 10 THEN <<48 + n>> ELSE fmt_nat(n \div 10) \o <<48 + (n % 10)>>

\* The Display of an i32: a minus sign before the digits of a negative value.
fmt_i32(n) == IF n < 0 THEN <<45>> \o fmt_nat(0 - n) ELSE fmt_nat(n)

\* static EDITEUREN_VERSION: &str = "11"
EDITEUREN_VERSION == <<49, 49>>

\* format!("Editeuren editor -- version {}", EDITEUREN_VERSION)
blurb_text ==
  <<69, 100, 105, 116, 101, 117, 114, 101, 110, 32, 101, 100, 105, 116, 111,
    114, 32, 45, 45, 32, 118, 101, 114, 115, 105, 111, 110, 32>>
  \o EDITEUREN_VERSION

\* String::truncate(new_len): keeps the first new_len bytes, or everything
\* when the string is not longer than that (the blurb is ASCII).
truncate(s, new_len) == SubSeq(s, 1, Min(Len(s), new_len))

\* vec![b' '; n]
spaces(n) == [i \in 1..n |-> 32]

\* A variant of half_sub_u32 that does not halve: the banner is pushed right.
sub_u32_not_halved(a, b) == IF a >= b THEN a - b ELSE 0

\* (a - b) / 2 on u32, a and b below 2^31.  When a < b the subtraction wraps
\* to a - b + 2^32 (a release build; a debug build panics), whose half is
\* 2^31 + floor((a - b) / 2), written here without exceeding 2^31 - 1.
I32Max == 2147483647
half_sub_u32(a, b) ==
  IF a >= b THEN (a - b) \div 2 ELSE I32Max + (((a - b) \div 2) + 1)

-----------------------------------------------------------------------------
(* AnsiBuffer: the fixed sequences.                                        *)

clear_screen == <<27, 91, 50, 74>>              \* "\x1b[2J"
erase_to_end_of_line == <<27, 91, 75>>          \* "\x1b[K"
move_top_left == <<27, 91, 72>>                 \* "\x1b[H"
show_cursor == <<27, 91, 63, 50, 53, 104>>      \* "\x1b[?25h"
hide_cursor == <<27, 91, 63, 50, 53, 108>>      \* "\x1b[?25l"
CRLF == <<13, 10>>                              \* "\r\n"
Tilde == <<126>>                                \* "~"

\* A variant of move_cursor_to that passes on the 0-based coordinates.
move_cursor_to_zero_based(row, col) ==
  <<27, 91>> \o fmt_i32(row) \o <<59>> \o fmt_i32(col) \o <<72>>

\* AnsiBuffer::move_cursor_to: format!("\x1b[{};{}H", row + 1, col + 1)
move_cursor_to(row, col) ==
  <<27, 91>> \o fmt_i32(row + 1) \o <<59>> \o fmt_i32(col + 1) \o <<72>>

-----------------------------------------------------------------------------
(* Screen::draw_rows and Screen::refresh.                                  *)

\* The banner row of draw_rows (the branch i == self.height / 3).
banner_row(w) ==
  LET blurb == truncate(blurb_text, w)
      len == Len(blurb)
      pad_width == half_sub_u32(w, len)
  IN  spaces(pad_width) \o blurb \o erase_to_end_of_line \o CRLF

\* The other rows of the loop.
tilde_row == Tilde \o erase_to_end_of_line \o CRLF

\* A variant of draw_loop with the banner at half the height.
RECURSIVE draw_loop_half(_, _, _)
draw_loop_half(i, w, h) ==
  IF i >= h THEN <<>>
  ELSE (IF i = h \div 2 THEN banner_row(w) ELSE tilde_row) \o draw_loop_half(i + 1, w, h)

\* The iterations i, i + 1, .., h - 1 of `for i in 1..self.height`.
RECURSIVE draw_loop(_, _, _)
draw_loop(i, w, h) ==
  IF i >= h THEN <<>>
  ELSE (IF i = h \div 3 THEN banner_row(w) ELSE tilde_row) \o draw_loop(i + 1, w, h)

\* A variant of draw_rows whose loop starts at 0: one row too many.
draw_rows_from_zero(w, h) == draw_loop(0, w, h) \o erase_to_end_of_line \o Tilde

\* Screen::draw_rows: the loop, then erase-to-end-of-line and a last "~".
draw_rows(w, h) == draw_loop(1, w, h) \o erase_to_end_of_line \o Tilde

\* A variant of frame that moves home before it hides the cursor.
frame_home_first(w, h, cur) ==
  move_top_left \o hide_cursor \o draw_rows(w, h) \o move_top_left
  \o move_cursor_to(cur[1], cur[2]) \o show_cursor

\* The buffer Screen::refresh builds and emits.
frame(w, h, cur) ==
  hide_cursor \o move_top_left \o draw_rows(w, h) \o move_top_left
  \o move_cursor_to(cur[1], cur[2]) \o show_cursor

\* The buffer Editor::restore_console builds and emits.
restore_frame == clear_screen \o move_top_left

-----------------------------------------------------------------------------
(* Terminal attributes (struct termios).  A flag word is the set of its    *)
(* bits that are set; c_cc is the control-character array.                 *)

IFlagBits == {"BRKINT", "ICRNL", "INPCK", "ISTRIP", "IXON", "IGNBRK"}
OFlagBits == {"OPOST", "ONLCR"}
CFlagBits == {"CSIZE_B4", "CSIZE_B5", "CREAD", "PARENB"}
LFlagBits == {"ECHO", "ICANON", "IEXTEN", "ISIG", "ECHOE"}
CcNames == {"VMIN", "VTIME", "VINTR"}

\* CS8 is both bits of the character-size field (CS5 is neither, CS6 and
\* CS7 one each).
CS8 == {"CSIZE_B4", "CSIZE_B5"}

\* A variant of raw_termios that leaves ISIG set and VTIME as it was.
raw_termios_keeps_isig(t) ==
  [c_iflag |-> t.c_iflag \ {"BRKINT", "ICRNL", "INPCK", "ISTRIP", "IXON"},
   c_oflag |-> t.c_oflag \ {"OPOST"},
   c_cflag |-> t.c_cflag \cup CS8,
   c_lflag |-> t.c_lflag \ {"ECHO", "ICANON", "IEXTEN"},
   c_cc    |-> [t.c_cc EXCEPT !["VMIN"] = 0]]

\* The attribute set enter_raw_mode derives from the original one.
raw_termios(t) ==
  [c_iflag |-> t.c_iflag \ {"BRKINT", "ICRNL", "INPCK", "ISTRIP", "IXON"},
   c_oflag |-> t.c_oflag \ {"OPOST"},
   c_cflag |-> t.c_cflag \cup CS8,
   c_lflag |-> t.c_lflag \ {"ECHO", "ICANON", "IEXTEN", "ISIG"},
   c_cc    |-> [t.c_cc EXCEPT !["VMIN"] = 0, !["VTIME"] = 1]]

\* A variant of enter_raw_mode that returns the modified attributes.
enter_raw_mode_result_modified(original_termios) == raw_termios(original_termios)

\* What enter_raw_mode returns: Ok(original_termios).
enter_raw_mode_result(original_termios) == original_termios

-----------------------------------------------------------------------------
(* Input scenarios.                                                        *)

\* A usual interactive terminal.
CookedTermios ==
  [c_iflag |-> {"BRKINT", "ICRNL", "IXON"},
   c_oflag |-> {"OPOST", "ONLCR"},
   c_cflag |-> {"CSIZE_B4", "CSIZE_B5", "CREAD"},
   c_lflag |-> {"ECHO", "ICANON", "IEXTEN", "ISIG", "ECHOE"},
   c_cc    |-> [n \in CcNames |-> IF n = "VMIN" THEN 1 ELSE IF n = "VTIME" THEN 0 ELSE 2]]

\* Attribute sets: each flag word through all its values and the control
\* characters through all theirs, the rest as in CookedTermios.
TermiosSamples ==
  {[CookedTermios EXCEPT !.c_iflag = f] : f \in SUBSET IFlagBits}
  \cup {[CookedTermios EXCEPT !.c_oflag = f] : f \in SUBSET OFlagBits}
  \cup {[CookedTermios EXCEPT !.c_cflag = f] : f \in SUBSET CFlagBits}
  \cup {[CookedTermios EXCEPT !.c_lflag = f] : f \in SUBSET LFlagBits}
  \cup {[CookedTermios EXCEPT !.c_cc = cc] : cc \in [CcNames -> 0..MaxCc]}

Winsize(row, col) == [ws_row |-> row, ws_col |-> col]

\* Keys of the session scenarios: Ctrl-Q (17), 'w', 's', 'a', 'd' and 'x'.
\* InitKey below has every byte.
SampleKeys == {17, 119, 115, 97, 100, 120}

RECURSIVE SeqsUpTo(_, _)
SeqsUpTo(S, n) ==
  IF n = 0 THEN {<<>>}
  ELSE LET shorter == SeqsUpTo(S, n - 1)
       IN  shorter \cup {Append(s, x) : s \in {t \in shorter : Len(t) = n - 1}, x \in S}

\* Sessions: a small window, inputs of up to MaxKeys sample keys.
InitSession ==
  /\ term = CookedTermios
  /\ ws = Winsize(3, 2)
  /\ stdin \in SeqsUpTo(SampleKeys, MaxKeys)

\* Geometries: every window of up to MaxRows rows and MaxCols columns,
\* zero included; the input is Ctrl-Q.
InitGeometry ==
  /\ term = CookedTermios
  /\ ws \in {Winsize(r, c) : r \in 0..MaxRows, c \in 0..MaxCols}
  /\ stdin = <<17>>

\* Keys: every byte value, as the only input.
InitKey ==
  /\ term = CookedTermios
  /\ ws = Winsize(3, 4)
  /\ stdin \in {<<b>> : b \in Byte}

\* Attributes: every sample attribute set; the input is Ctrl-Q.
InitTermios ==
  /\ term \in TermiosSamples
  /\ ws = Winsize(3, 4)
  /\ stdin = <<17>>

\* The window of the specification's example, 80 columns by 24 rows; the
\* input is Ctrl-Q, or 'd', 's', Ctrl-Q.
InitExample ==
  /\ term = CookedTermios
  /\ ws = Winsize(24, 80)
  /\ stdin \in {<<17>>, <<100, 115, 17>>}

Init ==
  /\ InitSession \/ InitGeometry \/ InitKey \/ InitTermios \/ InitExample
  /\ pc = "enter_raw_mode"
  /\ out = <<>>
  /\ restore_termios = <<>>
  /\ width = 0
  /\ height = 0
  /\ cursor = <<0, 0>>
  /\ exit_code = -1
  /\ timeouts = 0
  /\ calls = <<>>
  /\ term_before = term


-----------------------------------------------------------------------------
(* The program.                                                            *)

\* How the process ends: main returning Ok, main returning Err, a panic.
ExitOk == 0
ExitErr == 1
ExitPanic == 101

Exit(code, call) ==
  /\ pc' = "exit"
  /\ exit_code' = code
  /\ calls' = Append(calls, call)

\* Winsize::get on success: Ok((wz.ws_col, wz.ws_row)).
Winsize_get(wz) == <<wz.ws_col, wz.ws_row>>

\* A variant of update_cursor_location that keeps the cursor at or above 0.
update_cursor_location_clamped(cur, row_delta, col_delta) ==
  <<IF cur[1] + row_delta < 0 THEN 0 ELSE cur[1] + row_delta,
    IF cur[2] + col_delta < 0 THEN 0 ELSE cur[2] + col_delta>>

\* Screen::update_cursor_location
update_cursor_location(cur, row_delta, col_delta) ==
  <<cur[1] + row_delta, cur[2] + col_delta>>

\* A variant of handle_navigation with 'w' and 's' exchanged.
handle_navigation_swapped(cur, key) ==
  CASE key = KeyW -> update_cursor_location(cur, 1, 0)
    [] key = KeyS -> update_cursor_location(cur, -1, 0)
    [] key = KeyA -> update_cursor_location(cur, 0, -1)
    [] key = KeyD -> update_cursor_location(cur, 0, 1)
    [] OTHER -> cur

\* Editor::handle_navigation
handle_navigation(cur, key) ==
  CASE key = KeyW -> update_cursor_location(cur, -1, 0)
    [] key = KeyS -> update_cursor_location(cur, 1, 0)
    [] key = KeyA -> update_cursor_location(cur, 0, -1)
    [] key = KeyD -> update_cursor_location(cur, 0, 1)
    [] OTHER -> cur

\* The guard of the first arm of the match in Editor::process_key.
is_quit(key) == key = ctrl_key(KeyQ)

\* enter_raw_mode: Termios::from_fd(fd) succeeds.
FromFdOk ==
  /\ pc = "enter_raw_mode"
  /\ restore_termios' = <<term>>
  /\ pc' = "set_raw"
  /\ calls' = Append(calls, "from_fd")
  /\ UNCHANGED <<term, ws, stdin, out, width, height, cursor, exit_code,
                 timeouts, term_before>>

\* enter_raw_mode: Termios::from_fd(fd) fails; Editor::new and main return it.
FromFdErr ==
  /\ pc = "enter_raw_mode"
  /\ Exit(ExitErr, "from_fd_err")
  /\ UNCHANGED <<term, ws, stdin, out, restore_termios, width, height, cursor,
                 timeouts, term_before>>

\* enter_raw_mode: tcsetattr(fd, TCSAFLUSH, &termios) succeeds; Ok(original).
SetRawOk ==
  /\ pc = "set_raw"
  /\ term' = raw_termios(restore_termios[1])
  /\ restore_termios' = <<enter_raw_mode_result(restore_termios[1])>>
  /\ pc' = "winsize"
  /\ calls' = Append(calls, "set_raw")
  /\ UNCHANGED <<ws, stdin, out, width, height, cursor, exit_code, timeouts,
                 term_before>>

\* enter_raw_mode: tcsetattr fails and changes nothing.
SetRawErr ==
  /\ pc = "set_raw"
  /\ Exit(ExitErr, "set_raw_err")
  /\ UNCHANGED <<term, ws, stdin, out, restore_termios, width, height, cursor,
                 timeouts, term_before>>

\* Screen::new: the ioctl returns 0; Editor::new builds the Editor.
ScreenNewOk ==
  /\ pc = "winsize"
  /\ width' = Winsize_get(ws)[1]
  /\ height' = Winsize_get(ws)[2]
  /\ cursor' = <<0, 0>>
  /\ pc' = "refresh"
  /\ calls' = Append(calls, "winsize")
  /\ UNCHANGED <<term, ws, stdin, out, restore_termios, exit_code, timeouts,
                 term_before>>

\* Screen::new: the ioctl returns non-zero; Editor::new and main return Err.
ScreenNewErr ==
  /\ pc = "winsize"
  /\ Exit(ExitErr, "winsize_err")
  /\ UNCHANGED <<term, ws, stdin, out, restore_termios, width, height, cursor,
                 timeouts, term_before>>

\* A variant of RefreshOk whose buffer outlives the call: each frame is
\* appended to what the frame before left in it.
RefreshOkKeepsBuffer ==
  /\ pc = "refresh"
  /\ out' = Append(out, (IF out = <<>> THEN <<>> ELSE out[1])
                        \o frame(width, height, cursor))
  /\ pc' = "read_key"
  /\ timeouts' = 0
  /\ calls' = Append(calls, "frame")
  /\ UNCHANGED <<term, ws, stdin, restore_termios, width, height, cursor,
                 exit_code, term_before>>

\* A variant of RefreshOk that emits the frame twice.
RefreshOkTwice ==
  /\ pc = "refresh"
  /\ out' = out \o <<frame(width, height, cursor), frame(width, height, cursor)>>
  /\ pc' = "read_key"
  /\ timeouts' = 0
  /\ calls' = calls \o <<"frame", "frame">>
  /\ UNCHANGED <<term, ws, stdin, restore_termios, width, height, cursor,
                 exit_code, term_before>>

\* Screen::refresh: the frame is built, written with one write_all and flushed.
RefreshOk ==
  /\ pc = "refresh"
  /\ out' = Append(out, frame(width, height, cursor))
  /\ pc' = "read_key"
  /\ timeouts' = 0
  /\ calls' = Append(calls, "frame")
  /\ UNCHANGED <<term, ws, stdin, restore_termios, width, height, cursor,
                 exit_code, term_before>>

\* Screen::refresh: write_all or flush fails; run_loop and main return Err.
RefreshErr ==
  /\ pc = "refresh"
  /\ Exit(ExitErr, "frame_err")
  /\ UNCHANGED <<term, ws, stdin, out, restore_termios, width, height, cursor,
                 timeouts, term_before>>

\* A variant of ReadTimeout in which read_key returns on a zero-byte read,
\* with the 0 left in buf as the key.
ReadTimeoutReturns ==
  /\ pc = "read_key"
  /\ timeouts < MaxTimeouts
  /\ timeouts' = timeouts + 1
  /\ pc' = "refresh"
  /\ out' = Append(out, char_utf8(0))
  /\ calls' = calls \o <<"read", "print">>
  /\ UNCHANGED <<term, ws, stdin, restore_termios, width, height, cursor,
                 exit_code, term_before>>

\* Keyboard::read_key: the read returns Ok(0); the loop reads again.
ReadTimeout ==
  /\ pc = "read_key"
  /\ timeouts < MaxTimeouts
  /\ timeouts' = timeouts + 1
  /\ UNCHANGED <<pc, term, ws, stdin, out, restore_termios, width, height,
                 cursor, exit_code, calls, term_before>>

\* A variant of ReadErr that restores the terminal before the process ends.
ReadErrRestores ==
  /\ pc = "read_key"
  /\ term' = restore_termios[1]
  /\ Exit(ExitPanic, "read_err")
  /\ UNCHANGED <<ws, stdin, out, restore_termios, width, height, cursor,
                 timeouts, term_before>>

\* Keyboard::read_key: the read returns Err; panic!.
ReadErr ==
  /\ pc = "read_key"
  /\ Exit(ExitPanic, "read_err")
  /\ UNCHANGED <<term, ws, stdin, out, restore_termios, width, height, cursor,
                 timeouts, term_before>>

\* Editor::process_key once read_key has a byte: handle_navigation, then the
\* match: Ctrl-Q ends the loop, any other key is printed.  print! writes to
\* the same standard output as the frames (through its line buffer, which
\* the flush of the next frame empties at the latest).
ProcessKey ==
  /\ pc = "read_key"
  /\ stdin # <<>>
  /\ LET key == Head(stdin) IN
       /\ stdin' = Tail(stdin)
       /\ cursor' = handle_navigation(cursor, key)
       /\ \/ /\ is_quit(key)
             /\ pc' = "restore_console"
             /\ out' = out
             /\ calls' = calls \o <<"read", "quit">>
          \/ /\ ~is_quit(key)
             /\ pc' = "refresh"
             /\ out' = Append(out, char_utf8(key))
             /\ calls' = calls \o <<"read", "print">>
  /\ UNCHANGED <<term, ws, restore_termios, width, height, exit_code, timeouts,
                 term_before>>

\* restore_console: tcsetattr(fd, TCSAFLUSH, &self.restore_termios) succeeds.
RestoreAttrOk ==
  /\ pc = "restore_console"
  /\ term' = restore_termios[1]
  /\ pc' = "restore_emit"
  /\ calls' = Append(calls, "restore")
  /\ UNCHANGED <<ws, stdin, out, restore_termios, width, height, cursor,
                 exit_code, timeouts, term_before>>

\* A variant of RestoreAttrErr that ignores the error and goes on to write.
RestoreAttrErrIgnored ==
  /\ pc = "restore_console"
  /\ pc' = "restore_emit"
  /\ calls' = Append(calls, "restore_err")
  /\ UNCHANGED <<term, ws, stdin, out, restore_termios, width, height, cursor,
                 exit_code, timeouts, term_before>>

\* restore_console: tcsetattr fails and changes nothing; main returns Err.
RestoreAttrErr ==
  /\ pc = "restore_console"
  /\ Exit(ExitErr, "restore_err")
  /\ UNCHANGED <<term, ws, stdin, out, restore_termios, width, height, cursor,
                 timeouts, term_before>>

\* restore_console: clear-screen and move-home are written; main returns Ok.
RestoreEmitOk ==
  /\ pc = "restore_emit"
  /\ out' = Append(out, restore_frame)
  /\ Exit(ExitOk, "clear")
  /\ UNCHANGED <<term, ws, stdin, restore_termios, width, height, cursor,
                 timeouts, term_before>>

\* restore_console: the write or the flush fails; main returns Err.
RestoreEmitErr ==
  /\ pc = "restore_emit"
  /\ Exit(ExitErr, "clear_err")
  /\ UNCHANGED <<term, ws, stdin, out, restore_termios, width, height, cursor,
                 timeouts, term_before>>

Next ==
  \/ FromFdOk \/ FromFdErr
  \/ SetRawOk \/ SetRawErr
  \/ ScreenNewOk \/ ScreenNewErr
  \/ RefreshOk \/ RefreshErr
  \/ ReadTimeout \/ ReadErr \/ ProcessKey
  \/ RestoreAttrOk \/ RestoreAttrErr
  \/ RestoreEmitOk \/ RestoreEmitErr

Spec == Init /\ [][Next]_vars

\* The sessions with at most two bytes of input, under the assumption that a
\* byte waiting on standard input is eventually delivered by a read.
InitLive == Init /\ Len(stdin) <= 2

SpecLive == InitLive /\ [][Next]_vars /\ WF_vars(ProcessKey)

TypeOK ==
  /\ pc \in {"enter_raw_mode", "set_raw", "winsize", "refresh", "read_key",
             "restore_console", "restore_emit", "exit"}
  /\ Len(restore_termios) <= 1
  /\ width >= 0 /\ height >= 0
  /\ exit_code \in {-1, ExitOk, ExitErr, ExitPanic}
  /\ timeouts \in 0..MaxTimeouts


-----------------------------------------------------------------------------
(* Helpers for the properties.                                             *)

Range(s) == {s[i] : i \in DOMAIN s}

Count(s, x) == Cardinality({i \in DOMAIN s : s[i] = x})

Last(s) == s[Len(s)]

HasPrefix(s, p) == Len(s) >= Len(p) /\ SubSeq(s, 1, Len(p)) = p

\* The pieces of s between its "\r\n" pairs, in order; <<s>> when it has none.
RECURSIVE SplitCRLF(_)
SplitCRLF(s) ==
  LET at == {i \in 1..(Len(s) - 1) : s[i] = 13 /\ s[i + 1] = 10}
  IN  IF at = {} THEN <<s>>
      ELSE LET i == CHOOSE j \in at : \A k \in at : j <= k
           IN  <<SubSeq(s, 1, i - 1)>> \o SplitCRLF(SubSeq(s, i + 2, Len(s)))

\* Raw mode has been applied.
RawApplied == "set_raw" \in Range(calls)

\* The session is in its loop.
Running == pc \in {"refresh", "read_key"}

\* The process ended in Editor::new.
StartFailed ==
  /\ pc = "exit"
  /\ Last(calls) \in {"from_fd_err", "set_raw_err", "winsize_err"}

\* The calls made after the quit key was read.
AfterQuit ==
  LET i == CHOOSE j \in DOMAIN calls : calls[j] = "quit"
  IN  SubSeq(calls, i + 1, Len(calls))

\* The body of the first frame written: what lies between the preamble
\* (hide-cursor, move-home) and the postamble for the cursor at (0, 0).
FirstBody ==
  LET pre == hide_cursor \o move_top_left
      post == move_top_left \o move_cursor_to(0, 0) \o show_cursor
  IN  SubSeq(out[1], Len(pre) + 1, Len(out[1]) - Len(post))

\* This step dispatches the key Head(stdin).
KeyStep == stdin' # stdin

-----------------------------------------------------------------------------
(* C1 - C4: raw mode and its restoration.                                  *)

\* C1 (as claimed): whenever the process has ended after raw mode was applied,
\* the original attributes were reapplied exactly once and are in force.
C1_RestoredOnEveryExit ==
  (pc = "exit" /\ RawApplied) =>
    /\ Count(calls, "restore") = 1
    /\ term = restore_termios[1]

\* C2 (as claimed): when a step of Editor::new fails, the loop is never
\* entered and the terminal attributes at exit are those before the start.
C2_StartFailureLeavesTerminal ==
  StartFailed =>
    /\ "frame" \notin Range(calls)
    /\ "read" \notin Range(calls)
    /\ term = term_before

\* C3 (as claimed): once the quit key is read and the process has ended,
\* exactly one restoration and then exactly one clear-screen write were
\* made, nothing else, and the exit code is 0.
C3_QuitRestoresClearsExitsZero ==
  (pc = "exit" /\ "quit" \in Range(calls)) =>
    /\ AfterQuit = <<"restore", "clear">>
    /\ exit_code = ExitOk

\* C3 (amended): after the quit key no frame is rendered; one restoration is
\* attempted; if it succeeds one clear-screen + move-home write is attempted
\* after it, and if it fails that write is skipped; the exit code is 0 when
\* both succeed and 1 otherwise.
C3_QuitRestoresOnceThenClears ==
  "quit" \in Range(calls) =>
    /\ Count(calls, "quit") = 1
    /\ AfterQuit \in {<<>>, <<"restore">>, <<"restore", "clear">>,
                      <<"restore_err">>, <<"restore", "clear_err">>}
    /\ pc = "exit" <=> AfterQuit \in {<<"restore", "clear">>, <<"restore_err">>,
                                     <<"restore", "clear_err">>}
    /\ pc = "exit" => (exit_code = ExitOk <=> AfterQuit = <<"restore", "clear">>)
    /\ pc = "exit" => exit_code \in {ExitOk, ExitErr}
    /\ Count(out, restore_frame) = Count(calls, "clear")
    /\ "clear" \in Range(calls) => Last(out) = restore_frame /\ term = restore_termios[1]
    /\ Len(out) = Count(calls, "frame") + Count(calls, "print") + Count(calls, "clear")

C3_Witness ==
  /\ pc = "exit"
  /\ exit_code = ExitOk
  /\ AfterQuit = <<"restore", "clear">>
  /\ Count(calls, "frame") >= 2

\* C4: once enter_raw_mode has succeeded and restore_console has applied the
\* saved attributes, the terminal attributes are the ones before the start,
\* flag words and control characters alike.
C4_RestoreRoundTrip ==
  "restore" \in Range(calls) =>
    /\ term.c_iflag = term_before.c_iflag
    /\ term.c_oflag = term_before.c_oflag
    /\ term.c_cflag = term_before.c_cflag
    /\ term.c_lflag = term_before.c_lflag
    /\ \A n \in CcNames : term.c_cc[n] = term_before.c_cc[n]

C4_Witness ==
  /\ "restore" \in Range(calls)
  /\ raw_termios(term_before).c_lflag # term_before.c_lflag
  /\ term_before.c_cc["VMIN"] = 2
  /\ term_before.c_cc["VTIME"] = 2


-----------------------------------------------------------------------------
(* C5, C6, C10: geometry and the rows of a frame.                          *)

\* C5: with columns > 0 and rows > 0, width is the window's column count and
\* height its row count, and the body of the frame written is height - 1
\* rows each ended by "\r\n" and then one last row that is not empty and has
\* no newline after it.
C5_RowsOfFrame ==
  (out # <<>> /\ width > 0 /\ height > 0) =>
    /\ width = ws.ws_col
    /\ height = ws.ws_row
    /\ FirstBody = draw_rows(ws.ws_col, ws.ws_row)
    /\ LET rows == SplitCRLF(FirstBody) IN
         /\ Len(rows) = height
         /\ rows[height] # <<>>
         /\ \A i \in 1..height : 13 \notin Range(rows[i]) /\ 10 \notin Range(rows[i])

C5_Witness ==
  /\ out # <<>>
  /\ ws.ws_col = 2
  /\ ws.ws_row = 5
  /\ width # height
  /\ Len(SplitCRLF(FirstBody)) = 5

\* The banner row of the first frame: the row the iteration i = height / 3
\* of the loop writes (there is none when height < 3), without the
\* erase-to-end-of-line that ends it.
BannerRow ==
  LET row == SplitCRLF(FirstBody)[height \div 3]
  IN  SubSeq(row, 1, Len(row) - Len(erase_to_end_of_line))

\* C6: with L the banner's length and w the width, the banner row is
\* floor((w - L) / 2) spaces and the whole banner when L <= w, and the first
\* w characters of the banner with no padding when L > w; w - len is never
\* negative.
C6_BannerCentredOrCut ==
  (out # <<>> /\ height >= 3) =>
    LET L == Len(blurb_text)
        w == width
    IN  /\ L = 30
        /\ w - Len(truncate(blurb_text, w)) >= 0
        /\ L <= w => BannerRow = spaces((w - L) \div 2) \o blurb_text
        /\ L > w => BannerRow = SubSeq(blurb_text, 1, w)

C6_Witness ==
  /\ out # <<>>
  /\ height >= 3
  /\ width = 33
  /\ HasPrefix(BannerRow, <<32, 69>>)

\* A second case of C6: the banner is cut to the width.
C6_WitnessCut ==
  /\ out # <<>>
  /\ height >= 3
  /\ width = 4
  /\ BannerRow = <<69, 100, 105, 116>>

\* C10 (as claimed): in the loop, width and height are both above zero.
C10_GeometryPositive == Running => (width > 0 /\ height > 0)

-----------------------------------------------------------------------------
(* C7, C8: the dispatch of one key.                                        *)

\* C7: dispatching 'w' changes the row by -1, 's' by +1, 'a' the column by
\* -1, 'd' by +1, each leaving the other axis alone; every other byte,
\* Ctrl-Q included, leaves the cursor as it was.
C7_CursorDispatch ==
  [][KeyStep =>
       LET key == Head(stdin)
           row_delta == IF key = 119 THEN -1 ELSE IF key = 115 THEN 1 ELSE 0
           col_delta == IF key = 97 THEN -1 ELSE IF key = 100 THEN 1 ELSE 0
       IN  /\ cursor'[1] = cursor[1] + row_delta
           /\ cursor'[2] = cursor[2] + col_delta
           /\ key \notin {119, 115, 97, 100} => cursor' = cursor]_vars

C7_Witness ==
  /\ calls # <<>>
  /\ Last(calls) = "print"
  /\ cursor = <<-1, 1>>

\* A second case of C7: Ctrl-Q was dispatched after a move and the cursor
\* is where the move left it.
C7_WitnessQuit ==
  /\ pc = "restore_console"
  /\ Count(calls, "read") = 2
  /\ cursor = <<1, 0>>

\* C8: a dispatched key ends the loop exactly when it is 0x11 ('q' masked
\* with 0x1F); after any other byte, 'q' and 'Q' included, the loop goes on.
C8_QuitOnlyOnCtrlQ ==
  [][KeyStep =>
       /\ Running
       /\ Head(stdin) = 17 => ~Running' /\ pc' = "restore_console"
       /\ Head(stdin) # 17 => Running']_vars

C8_Witness ==
  /\ pc = "restore_console"
  /\ Count(calls, "read") = 3
  /\ Count(calls, "print") = 2

-----------------------------------------------------------------------------
(* C9: what is written on standard output.                                 *)

\* s is a complete frame for the current geometry, the cursor somewhere it
\* can be after the keys read so far.
IsFrame(s) ==
  LET n == Count(calls, "read")
  IN  \E r \in (0 - n)..n, c \in (0 - n)..n : s = frame(width, height, <<r, c>>)

\* C9 (as claimed): every write on standard output is a complete frame or
\* the restoration sequence, the latter written at most once.
C9_OnlyFramesAndRestore ==
  /\ \A i \in DOMAIN out : IsFrame(out[i]) \/ out[i] = restore_frame
  /\ Count(out, restore_frame) <= 1

-----------------------------------------------------------------------------
(* C11, C12: read_key.                                                     *)

\* C11: a zero-byte read changes nothing of the editor and the terminal and
\* is followed by another read; read_key is left only with a byte, the first
\* one waiting on standard input, which is the key dispatched, or by the
\* panic of a read error; and when a byte is waiting, read_key is eventually
\* left.
C11_ReadKeyReturnsFirstByte ==
  /\ [][(pc = "read_key" /\ timeouts' # timeouts) =>
          /\ pc' = "read_key"
          /\ UNCHANGED <<term, stdin, out, restore_termios, width, height,
                         cursor, exit_code, calls>>]_vars
  /\ [][(pc = "read_key" /\ pc' # "read_key") =>
          \/ /\ stdin # <<>>
             /\ stdin' = Tail(stdin)
             /\ Head(stdin) # 17 => Last(out') = char_utf8(Head(stdin))
             /\ Head(stdin) = 17 => pc' = "restore_console"
          \/ Last(calls') = "read_err" /\ exit_code' = ExitPanic]_vars
  /\ (pc = "read_key" /\ stdin # <<>>) ~> (pc # "read_key")

C11_Witness ==
  /\ timeouts = 1
  /\ Last(calls) = "print"
  /\ Last(out) = <<120>>

\* C12: a read error in the loop ends the process in that step: no key is
\* dispatched, nothing is written, the attributes are not restored, and the
\* terminal stays in raw mode.
C12_ReadErrorLeavesRawMode ==
  [][(calls' # calls /\ Last(calls') = "read_err") =>
       /\ pc = "read_key"
       /\ pc' = "exit"
       /\ exit_code' # ExitOk
       /\ UNCHANGED <<term, stdin, out, cursor>>
       /\ term' = raw_termios(term_before)
       /\ "restore" \notin Range(calls')
       /\ "clear" \notin Range(calls')
       /\ restore_frame \notin Range(out')]_vars

C12_Witness ==
  /\ pc = "exit"
  /\ Last(calls) = "read_err"
  /\ Count(calls, "read") = 2
  /\ "ECHO" \in term_before.c_lflag
  /\ "ECHO" \notin term.c_lflag

-----------------------------------------------------------------------------
(* Reading the output back.                                                *)

HasSuffix(s, p) == Len(s) >= Len(p) /\ SubSeq(s, Len(s) - Len(p) + 1, Len(s)) = p

\* How many times p occurs in s.
CountOcc(s, p) ==
  Cardinality({i \in 1..(Len(s) - Len(p) + 1) :
                 s[i] = p[1] /\ \A k \in 2..Len(p) : s[i + k - 1] = p[k]})

\* The kind of each write on standard output, in order: "frame", "print" or
\* "clear".
WriteKinds == SelectSeq(calls, LAMBDA c : c \in {"frame", "print", "clear"})

\* The places of the frames among the writes.
FrameIdx == {i \in DOMAIN out : i <= Len(WriteKinds) /\ WriteKinds[i] = "frame"}

\* The character a printed key's bytes encode.
DecodeChar(s) == IF Len(s) = 1 THEN s[1] ELSE (s[1] - 192) * 64 + (s[2] - 128)

\* The keys printed among the first n writes, in order.  Every key that was
\* dispatched is printed, except the Ctrl-Q that ends the loop.
PrintedKeys(n) ==
  LET kinds == WriteKinds
      upto[k \in 0..n] ==
        IF k = 0 THEN <<>>
        ELSE IF kinds[k] = "print" THEN Append(upto[k - 1], DecodeChar(out[k]))
        ELSE upto[k - 1]
  IN  upto[n]

\* Where the keys leave the cursor: <<#'s' - #'w', #'d' - #'a'>>.
CursorAfter(keys) ==
  <<Count(keys, 115) - Count(keys, 119), Count(keys, 100) - Count(keys, 97)>>

\* The value of a string of decimal digits, with a minus sign or not.
RECURSIVE ParseNat(_)
ParseNat(s) ==
  IF s = <<>> THEN 0 ELSE ParseNat(SubSeq(s, 1, Len(s) - 1)) * 10 + (s[Len(s)] - 48)

ParseInt(s) == IF s # <<>> /\ s[1] = 45 THEN 0 - ParseNat(Tail(s)) ELSE ParseNat(s)

\* The place of the last ESC of s at or before place i (0 when there is none).
RECURSIVE LastEsc(_, _)
LastEsc(s, i) == IF i = 0 \/ s[i] = 27 THEN i ELSE LastEsc(s, i - 1)

\* The last escape sequence of frame f before its final show-cursor.
LastSeqStart(f) == LastEsc(f, Len(f) - Len(show_cursor))

CupOf(f) == SubSeq(f, LastSeqStart(f), Len(f) - Len(show_cursor))

\* CupOf(f) is ESC [ n ; m H with n and m decimal numbers.
CupWellFormed(f) ==
  LET cup == CupOf(f)
      inner == SubSeq(cup, 3, Len(cup) - 1)
  IN  /\ Len(cup) >= 6
      /\ cup[1] = 27 /\ cup[2] = 91 /\ cup[Len(cup)] = 72
      /\ Count(inner, 59) = 1
      /\ \A i \in DOMAIN inner : inner[i] \in (48..57) \cup {45, 59}

\* The two numbers of CupOf(f).
CupCoords(f) ==
  LET cup == CupOf(f)
      inner == SubSeq(cup, 3, Len(cup) - 1)
      semi == CHOOSE i \in DOMAIN inner : inner[i] = 59
  IN  <<ParseInt(SubSeq(inner, 1, semi - 1)), ParseInt(SubSeq(inner, semi + 1, Len(inner)))>>

-----------------------------------------------------------------------------
(* C13 - C15: the loop and the shape of a frame.                           *)

\* C13: in the loop each read of a key comes right after the writing of one
\* frame and is followed by that key's dispatch; the frame shows the cursor
\* where the keys dispatched before it left it; once the quit key is read as
\* many frames were written as keys read and no frame follows.
C13_RenderReadDispatch ==
  /\ \A i \in DOMAIN calls :
       /\ calls[i] \in {"read", "read_err"} => (i > 1 /\ calls[i - 1] = "frame")
       /\ (calls[i] = "frame" /\ i < Len(calls)) => calls[i + 1] \in {"read", "read_err"}
       /\ calls[i] = "read" => (i < Len(calls) /\ calls[i + 1] \in {"print", "quit"})
       /\ (calls[i] = "print" /\ i < Len(calls)) => calls[i + 1] \in {"frame", "frame_err"}
       /\ (calls[i] = "quit" /\ i < Len(calls)) => calls[i + 1] \in {"restore", "restore_err"}
  /\ pc = "read_key" =>
       /\ Len(out) \in FrameIdx
       /\ Last(out) = frame(width, height, CursorAfter(PrintedKeys(Len(out))))
       /\ Count(calls, "frame") = Count(calls, "read") + 1
  /\ "quit" \in Range(calls) =>
       /\ Count(calls, "frame") = Count(calls, "read")
       /\ Cardinality(FrameIdx) = Count(calls, "read")

C13_Witness ==
  /\ pc = "restore_console"
  /\ Count(calls, "read") = 3
  /\ cursor = <<1, 1>>
  /\ width = 80
  /\ CupCoords(out[5]) = <<2, 2>>

\* C14 (as claimed): every frame begins with hide-cursor, clear-screen,
\* move-home.
C14_PreambleWithClear ==
  \A i \in FrameIdx : HasPrefix(out[i], hide_cursor \o clear_screen \o move_top_left)

\* C14 (amended): every frame begins with hide-cursor then move-home, the
\* rows follow at once, and no frame holds a clear-screen sequence.
C14_PreambleHideHome ==
  \A i \in FrameIdx :
    /\ HasPrefix(out[i], hide_cursor \o move_top_left)
    /\ \/ HasPrefix(out[i], hide_cursor \o move_top_left \o Tilde)
       \/ HasPrefix(out[i], hide_cursor \o move_top_left \o erase_to_end_of_line)
       \/ HasPrefix(out[i], hide_cursor \o move_top_left \o <<32>>)
       \/ HasPrefix(out[i], hide_cursor \o move_top_left \o <<69>>)
    /\ CountOcc(out[i], clear_screen) = 0

C14_Witness ==
  /\ Cardinality(FrameIdx) = 3
  /\ height = 3
  /\ HasPrefix(out[1], hide_cursor \o move_top_left \o <<69>>)

\* C15: every frame ends with move-home, one cursor-positioning sequence and
\* show-cursor; the sequence carries row + 1 and column + 1 of the cursor at
\* the time of the render; hide-cursor occurs once, first, and show-cursor
\* once, last.
C15_Postamble ==
  /\ \A i \in FrameIdx :
       LET f == out[i] IN
         /\ HasPrefix(f, hide_cursor)
         /\ HasSuffix(f, show_cursor)
         /\ CountOcc(f, hide_cursor) = 1
         /\ CountOcc(f, show_cursor) = 1
         /\ CupWellFormed(f)
         /\ HasSuffix(SubSeq(f, 1, LastSeqStart(f) - 1), move_top_left)
         /\ LET at == CursorAfter(PrintedKeys(i))
            IN  CupCoords(f) = <<at[1] + 1, at[2] + 1>>
  /\ pc = "read_key" => CupCoords(Last(out)) = <<cursor[1] + 1, cursor[2] + 1>>

C15_Witness ==
  /\ pc = "read_key"
  /\ cursor = <<2, -1>>
  /\ HasSuffix(Last(out), <<27, 91, 72, 27, 91, 51, 59, 48, 72>> \o show_cursor)

-----------------------------------------------------------------------------
(* C16: where the banner is.                                               *)

\* A row without its erase-to-end-of-line, which ends every row but the
\* last and begins the last.
RowText(row) ==
  IF HasPrefix(row, erase_to_end_of_line)
  THEN SubSeq(row, Len(erase_to_end_of_line) + 1, Len(row))
  ELSE SubSeq(row, 1, Len(row) - Len(erase_to_end_of_line))

\* How many spaces s has from place i on, before anything else.
RECURSIVE SpacesFrom(_, _)
SpacesFrom(s, i) == IF i > Len(s) \/ s[i] # 32 THEN 0 ELSE 1 + SpacesFrom(s, i + 1)

\* text is some spaces and then a non-empty beginning of the banner (which
\* begins with a letter).
IsBannerText(text) ==
  LET n == SpacesFrom(text, 1) IN
    /\ n < Len(text)
    /\ Len(text) - n <= Len(blurb_text)
    /\ SubSeq(text, n + 1, Len(text)) = SubSeq(blurb_text, 1, Len(text) - n)

\* The rows of the first frame, and the numbers (from 1) of those that hold
\* the banner.
FirstRows == SplitCRLF(FirstBody)

BannerRowsOf(rows) == {i \in DOMAIN rows : IsBannerText(RowText(rows[i]))}

BannerRows == BannerRowsOf(FirstRows)

\* C16 (as claimed): for every w, h > 0 exactly one row holds the banner, the
\* row height / 3 (rows counted from 1, as the loop index does: row 8 of 24),
\* and every other row is the single '~'.
C16_OneBannerRowAlways ==
  (out # <<>> /\ width > 0 /\ height > 0) =>
    LET rows == FirstRows
        banner == BannerRowsOf(rows)
    IN  /\ banner = {height \div 3}
        /\ \A i \in DOMAIN rows \ banner : RowText(rows[i]) = Tilde

\* C16 (amended): for w > 0 and h >= 3 exactly one row holds the banner, the
\* row height / 3 counted from 1 (0-based index height / 3 - 1); for h < 3 no
\* row holds it; every other row, the last included, is the single '~'.
C16_BannerRowFromThreeRows ==
  (out # <<>> /\ width > 0 /\ height > 0) =>
    LET rows == FirstRows
        banner == BannerRowsOf(rows)
    IN  /\ height >= 3 => banner = {height \div 3}
        /\ height < 3 => banner = {}
        /\ \A i \in DOMAIN rows \ banner : RowText(rows[i]) = Tilde
        /\ Len(rows) \notin banner

C16_Witness ==
  /\ out # <<>>
  /\ width = 80
  /\ height = 24
  /\ BannerRows = {8}
  /\ RowText(FirstRows[8]) = spaces(25) \o blurb_text
  /\ RowText(FirstRows[9]) = Tilde

\* A second case of C16: a window of two rows has no banner.
C16_WitnessNoBanner ==
  /\ out # <<>>
  /\ width = 33
  /\ height = 2
  /\ BannerRows = {}

-----------------------------------------------------------------------------
(* C17: the raw attributes.                                                *)

\* C17: from the success of enter_raw_mode until the restoration, the
\* attributes in force have BRKINT, ICRNL, INPCK, ISTRIP, IXON, OPOST, ECHO,
\* ICANON, IEXTEN and ISIG cleared, both CS8 bits set, VMIN = 0 and
\* VTIME = 1; every other bit and control character is as before; and the
\* value kept for the restoration is the original, unmodified.
C17_RawAttributes ==
  (RawApplied /\ "restore" \notin Range(calls)) =>
    /\ term.c_iflag \cap {"BRKINT", "ICRNL", "INPCK", "ISTRIP", "IXON"} = {}
    /\ "OPOST" \notin term.c_oflag
    /\ {"CSIZE_B4", "CSIZE_B5"} \subseteq term.c_cflag
    /\ term.c_lflag \cap {"ECHO", "ICANON", "IEXTEN", "ISIG"} = {}
    /\ term.c_cc["VMIN"] = 0
    /\ term.c_cc["VTIME"] = 1
    /\ \A b \in {"IGNBRK"} : b \in term.c_iflag <=> b \in term_before.c_iflag
    /\ \A b \in {"ONLCR"} : b \in term.c_oflag <=> b \in term_before.c_oflag
    /\ \A b \in {"CREAD", "PARENB"} : b \in term.c_cflag <=> b \in term_before.c_cflag
    /\ \A b \in {"ECHOE"} : b \in term.c_lflag <=> b \in term_before.c_lflag
    /\ \A n \in CcNames \ {"VMIN", "VTIME"} : term.c_cc[n] = term_before.c_cc[n]
    /\ term.c_iflag \subseteq IFlagBits /\ term.c_oflag \subseteq OFlagBits
    /\ term.c_cflag \subseteq CFlagBits /\ term.c_lflag \subseteq LFlagBits
    /\ restore_termios = <<term_before>>

C17_Witness ==
  /\ calls # <<>>
  /\ Last(calls) = "set_raw"
  /\ term_before.c_lflag = LFlagBits
  /\ term_before.c_cc["VTIME"] = 2
  /\ term_before.c_cc["VINTR"] = 2
  /\ term.c_lflag = {"ECHOE"}
  /\ term.c_cc["VINTR"] = 2

-----------------------------------------------------------------------------
(* C18 - C20: echo, the cursor, and what a frame depends on.               *)

\* C18 (as claimed): the dispatch of a key writes it to standard output, once,
\* exactly when it is neither Ctrl-Q nor one of 'w', 's', 'a', 'd'; for those
\* five nothing is written.
C18_EchoExceptQuitAndNavigation ==
  [][KeyStep =>
       LET key == Head(stdin) IN
         /\ key \in {17, 119, 115, 97, 100} => out' = out
         /\ key \notin {17, 119, 115, 97, 100} => out' = Append(out, char_utf8(key))]_vars

\* C19: the cursor is <<0, 0>> until a key is dispatched and always
\* <<#'s' - #'w', #'d' - #'a'>> over the keys dispatched, whatever the
\* geometry; when a coordinate is negative, or not below its dimension, the
\* frame's cursor-positioning sequence carries a number below 1, or above the
\* dimension.
C19_CursorUnclamped ==
  /\ "read" \notin Range(calls) => cursor = <<0, 0>>
  /\ cursor = CursorAfter(PrintedKeys(Len(out)))
  /\ pc = "read_key" =>
       LET c == CupCoords(Last(out)) IN
         /\ cursor[1] < 0 => c[1] < 1
         /\ cursor[2] < 0 => c[2] < 1
         /\ cursor[1] >= height => c[1] > height
         /\ cursor[2] >= width => c[2] > width

C19_Witness ==
  /\ pc = "read_key"
  /\ cursor = <<-1, 2>>
  /\ width = 2
  /\ CupCoords(Last(out)) = <<0, 3>>

\* A second case of C19: the row is past the last row of the window.
C19_WitnessBelow ==
  /\ pc = "read_key"
  /\ height = 3
  /\ cursor = <<3, 0>>
  /\ CupCoords(Last(out)) = <<4, 1>>

\* C20: the window size is asked for once; width and height change in no
\* step after that; the frame just written is the one built from width,
\* height and the cursor alone; and two frames of a session written with the
\* cursor at the same place are equal, whatever was read in between.
C20_FrameDependsOnGeometryAndCursor ==
  /\ [](/\ Count(calls, "winsize") + Count(calls, "winsize_err") <= 1
        /\ pc = "read_key" => Last(out) = frame(ws.ws_col, ws.ws_row, cursor)
        /\ LET at == [i \in FrameIdx |-> CursorAfter(PrintedKeys(i))]
           IN  \A i, j \in FrameIdx : at[i] = at[j] => out[i] = out[j])
  /\ [][pc # "winsize" => (width' = width /\ height' = height)]_vars

C20_Witness ==
  /\ pc = "read_key"
  /\ Cardinality(FrameIdx) = 3
  /\ PrintedKeys(Len(out)) = <<119, 115>>
  /\ out[5] = out[1]
  /\ out[3] # out[1]

====
